---- MODULE Spec2Model ----
(***************************************************************************)
(* OAuth2 authorization-code provider of payaid-core:                      *)
(*   GET  /api/oauth/authorize   (authorize route)                         *)
(*   POST /api/oauth/token       (token route)                             *)
(*   GET  /api/oauth/userinfo    (userinfo route)                          *)
(*   PATCH /api/admin/tenants/[tenantId]/modules  (module licensing)       *)
(*   POST /api/auth/login        (session tokens)                          *)
(*   POST /api/auth/register     (tenants and their owners)                *)
(*   POST /api/billing/webhook   (payment callbacks of module orders)      *)
(* over the Redis-backed Cache helper (get / set / delete) and the         *)
(* user/tenant table read through prisma.user.findUnique.                  *)
(*                                                                         *)
(* A handler is an async function: the code between two awaits runs        *)
(* atomically, so every action below is one awaited operation together     *)
(* with the code that follows it up to the next await or return.           *)
(***************************************************************************)
EXTENDS Integers, FiniteSets, Sequences, TLC

VARIABLES now, store, nextId, db, authz, tok, issued, granted,
          held, ui, adm, orders, wh

\* held: the session tokens login has handed out; ui, adm: the userinfo
\* request and the module-update request being handled
\* orders: the order table; wh: the payment webhook delivery being handled
billVars == <<orders, wh>>

webVars == <<held, ui, adm, billVars>>

vars == <<now, store, nextId, db, authz, tok, issued, granted, webVars>>

(***************************************************************************)
(* Bounds of the model.                                                    *)
(***************************************************************************)
\* authorization codes issued, and random values drawn in all
MaxCodes == 1
MaxIds == 3
MaxTicks == 2
\* session tokens handed out by login
MaxLogins == 1
TickSeconds == 200

\* two token requests can be in progress at the same time
Slots == {1, 2}

(***************************************************************************)
(* Program constants.                                                      *)
(***************************************************************************)
Undefined == "undefined"

OAUTH_CLIENT_ID == "core-client"
OAUTH_CLIENT_SECRET == "core-secret"

CODE_TTL == 300
REFRESH_TTL == 60 * 60 * 24 * 30
EXPIRES_IN == 86400
DEFAULT_SCOPE == "openid profile email"

(***************************************************************************)
(* JavaScript values that travel through the cache.  A value is null, a    *)
(* plain object (enc = 0) or a string holding the JSON text of a value     *)
(* (enc = number of JSON.stringify layers around the object).              *)
(***************************************************************************)
NoFields ==
  [userId |-> Undefined, tenantId |-> Undefined, redirectUri |-> Undefined,
   clientId |-> Undefined, scope |-> Undefined]

JsNull == [isNull |-> TRUE, enc |-> 0, obj |-> NoFields]

JsObject(o) == [isNull |-> FALSE, enc |-> 0, obj |-> o]

JSONstringify(v) == [isNull |-> FALSE, enc |-> v.enc + 1, obj |-> v.obj]

JSONparse(s) == [isNull |-> FALSE, enc |-> s.enc - 1, obj |-> s.obj]

\* v.f : a property read; a string has no such property
Prop(v, f) == IF ~v.isNull /\ v.enc = 0 THEN v.obj[f] ELSE Undefined

\* !v is false for objects and for non-empty strings
Truthy(v) == ~v.isNull

\* crypto.randomBytes(32).toString('hex'): the n-th value drawn
RandomHex(n) == "hex" \o ToString(n)

\* a value the process never drew
BogusHex == "hex0"

CodeKey(code) == "oauth:code:" \o code
RefreshKey(token) == "oauth:refresh:" \o token

(***************************************************************************)
(* Cache (Redis).  ok = FALSE: the command was rejected, the connection is *)
(* down or the 100 ms timer won the race.                                  *)
(***************************************************************************)
\* variant: the value is parsed until an object comes out
CacheGet_DeepParse(st, key, ok) ==
  IF ok /\ key \in DOMAIN st
  THEN [isNull |-> FALSE, enc |-> 0, obj |-> st[key].value.obj]
  ELSE JsNull

\* variant: a failed command yields an empty object instead of null
CacheGet_FailOpen(st, key, ok) ==
  IF ~ok THEN JsObject(NoFields)
  ELSE IF key \in DOMAIN st THEN JSONparse(st[key].value) ELSE JsNull

CacheGet(st, key, ok) ==
  IF ok /\ key \in DOMAIN st THEN JSONparse(st[key].value) ELSE JsNull

\* variant: the time to live is passed on in the wrong unit
CacheSet_Millis(st, key, value, ttlSeconds, t, ok) ==
  IF ok
  THEN [k \in DOMAIN st \cup {key} |->
          IF k = key
          THEN [value |-> JSONstringify(value), exp |-> t + ttlSeconds * 1000]
          ELSE st[k]]
  ELSE st

\* variant: the key is written with SET, without a time to live
CacheSet_NoExpiry(st, key, value, ttlSeconds, t, ok) ==
  IF ok
  THEN [k \in DOMAIN st \cup {key} |->
          IF k = key
          THEN [value |-> JSONstringify(value), exp |-> -1]
          ELSE st[k]]
  ELSE st

CacheSet(st, key, value, ttlSeconds, t, ok) ==
  IF ok
  THEN [k \in DOMAIN st \cup {key} |->
          IF k = key
          THEN [value |-> JSONstringify(value),
                exp |-> IF ttlSeconds # 0 THEN t + ttlSeconds ELSE -1]
          ELSE st[k]]
  ELSE st

CacheDelete(st, key, ok) ==
  IF ok THEN [k \in DOMAIN st \ {key} |-> st[k]] ELSE st

\* Redis drops a key once its time to live has elapsed (-1: no expiry)
Expire(st, t) ==
  [k \in {x \in DOMAIN st : st[x].exp = -1 \/ st[x].exp > t} |-> st[k]]

(***************************************************************************)
(* User / tenant table.                                                    *)
(***************************************************************************)
Users == {"u1", "u2"}
Tenants == {"t1", "t2"}

NoUser == [id |-> Undefined, tenantId |-> Undefined, role |-> Undefined]

\* prisma.user.findUnique({ where: { id }, include: { tenant: true } }):
\* the row, or null when there is none; with id undefined the where clause is
\* empty and Prisma rejects the query with a validation error
FindUnique(d, id) ==
  IF id = Undefined
  THEN [kind |-> "throw", user |-> NoUser]
  ELSE IF id \in DOMAIN d.users
       THEN [kind |-> "user", user |-> d.users[id]]
       ELSE [kind |-> "null", user |-> NoUser]

NoToken ==
  [userId |-> Undefined, tenantId |-> Undefined, role |-> Undefined,
   licensedModules |-> {}, subscriptionTier |-> Undefined]

\* signToken({...}) with the tenant's licensing read at that moment
signToken(d, user) ==
  [userId |-> user.id, tenantId |-> user.tenantId, role |-> user.role,
   licensedModules |-> d.tenants[user.tenantId].licensedModules,
   subscriptionTier |->
     IF d.tenants[user.tenantId].subscriptionTier = Undefined
     THEN "free" ELSE d.tenants[user.tenantId].subscriptionTier]

(***************************************************************************)
(* Responses of the token endpoint.                                        *)
(***************************************************************************)
JsonError(error, description, status) ==
  [status |-> status, error |-> error, error_description |-> description,
   access_token |-> NoToken, token_type |-> Undefined, expires_in |-> 0,
   refresh_token |-> Undefined, scope |-> Undefined]

TokenResponse(token, refreshToken, scope) ==
  [status |-> 200, error |-> Undefined, error_description |-> Undefined,
   access_token |-> token, token_type |-> "Bearer", expires_in |-> EXPIRES_IN,
   refresh_token |-> refreshToken, scope |-> scope]

NoResponse == JsonError(Undefined, Undefined, 0)

(***************************************************************************)
(* GET /api/oauth/authorize                                                *)
(***************************************************************************)
RedirectUris == {"https://a.example/cb", "https://b.example/cb"}

NoCookie == [kind |-> "none", userId |-> Undefined]
BadCookie == [kind |-> "bad", userId |-> Undefined]
SessionCookie(u) == [kind |-> "jwt", userId |-> u]

Cookies == {NoCookie, BadCookie} \cup {SessionCookie(u) : u \in Users}

\* the queries a registered module sends
FlowQueries ==
  [client_id : {OAUTH_CLIENT_ID},
   redirect_uri : {"https://a.example/cb"},
   response_type : {"code"},
   scope : {DEFAULT_SCOPE}]

FlowCookies == {SessionCookie(u) : u \in Users}

AuthorizeQueries ==
  [client_id : {OAUTH_CLIENT_ID, "other-client"},
   redirect_uri : RedirectUris \cup {Undefined},
   response_type : {"code", "token"},
   scope : {DEFAULT_SCOPE}]

\* verifyToken(token): the payload, or an exception
verifyToken(cookie) ==
  IF cookie.kind = "jwt"
  THEN [kind |-> "payload", userId |-> cookie.userId]
  ELSE [kind |-> "throw", userId |-> Undefined]

\* request.url: the URL of an authorize request is given by its query
NoQuery ==
  [client_id |-> Undefined, redirect_uri |-> Undefined,
   response_type |-> Undefined, scope |-> Undefined]

NoUrl == [path |-> Undefined, search |-> NoQuery]

RequestUrl(query) == [path |-> "/api/oauth/authorize", search |-> query]

\* a response: JSON error, or a redirect with its `code` and `redirect`
\* search parameters
AuthzJson(error, status) ==
  [kind |-> "json", status |-> status, error |-> error,
   location |-> Undefined, code |-> Undefined, redirect |-> NoUrl]

AuthzRedirect(location, code) ==
  [kind |-> "redirect", status |-> 307, error |-> Undefined,
   location |-> location, code |-> code, redirect |-> NoUrl]

LoginRedirect == AuthzRedirect("/login", Undefined)

LoginRedirectTo_Bare(url) == LoginRedirect

\* new URL('/login', request.url) with searchParams.set('redirect', request.url)
LoginRedirectTo(url) == [LoginRedirect EXCEPT !.redirect = url]

NoAuthzResponse ==
  [kind |-> Undefined, status |-> 0, error |-> Undefined,
   location |-> Undefined, code |-> Undefined, redirect |-> NoUrl]

IdleAuthz ==
  [pc |-> "idle", query |-> NoQuery,
   cookie |-> NoCookie, user |-> NoUser, authCode |-> Undefined,
   resp |-> NoAuthzResponse, lookupFailed |-> FALSE]

AuthzDone(a, resp) ==
  [a EXCEPT !.pc = "done", !.resp = resp, !.user = NoUser, !.authCode = Undefined]

AuthorizeStart_TypeFirst(query, cookie) ==
  /\ authz.pc \in {"idle", "done"}
  /\ nextId <= MaxCodes
  /\ LET a == [IdleAuthz EXCEPT !.query = query, !.cookie = cookie] IN
     authz' =
       IF query.response_type # "code"
       THEN AuthzDone(a, AuthzJson("unsupported_response_type", 400))
       ELSE IF query.client_id # OAUTH_CLIENT_ID
       THEN AuthzDone(a, AuthzJson("invalid_client", 400))
       ELSE IF query.redirect_uri = Undefined
       THEN AuthzDone(a, AuthzJson("invalid_request", 400))
       ELSE IF cookie.kind = "none"
       THEN AuthzDone(a, LoginRedirectTo(RequestUrl(query)))
       ELSE IF verifyToken(cookie).kind = "throw"
       THEN AuthzDone(a, LoginRedirectTo(RequestUrl(query)))
       ELSE [a EXCEPT !.pc = "findUser"]
  /\ UNCHANGED <<now, store, nextId, db, tok, issued, granted, webVars>>

\* parameter validation, cookie check and verifyToken, up to the user lookup
AuthorizeStart(query, cookie) ==
  /\ authz.pc \in {"idle", "done"}
  /\ nextId <= MaxCodes
  /\ LET a == [IdleAuthz EXCEPT !.query = query, !.cookie = cookie] IN
     authz' =
       IF query.client_id # OAUTH_CLIENT_ID
       THEN AuthzDone(a, AuthzJson("invalid_client", 400))
       ELSE IF query.response_type # "code"
       THEN AuthzDone(a, AuthzJson("unsupported_response_type", 400))
       ELSE IF query.redirect_uri = Undefined
       THEN AuthzDone(a, AuthzJson("invalid_request", 400))
       ELSE IF cookie.kind = "none"
       THEN AuthzDone(a, LoginRedirectTo(RequestUrl(query)))
       ELSE IF verifyToken(cookie).kind = "throw"
       THEN AuthzDone(a, LoginRedirectTo(RequestUrl(query)))
       ELSE [a EXCEPT !.pc = "findUser"]
  /\ UNCHANGED <<now, store, nextId, db, tok, issued, granted, webVars>>

\* await prisma.user.findUnique, then the code is drawn; a lookup that
\* raises an error (~dbOk) and the 'User not found' thrown for a missing row
\* both reach the inner catch, which redirects to the login page
\* (lookupFailed records that the user could not be resolved)
AuthorizeFindUser(dbOk) ==
  /\ authz.pc = "findUser"
  /\ LET res == FindUnique(db, verifyToken(authz.cookie).userId) IN
     IF dbOk /\ res.kind = "user"
     THEN /\ authz' = [authz EXCEPT !.pc = "set", !.user = res.user,
                                    !.authCode = RandomHex(nextId)]
          /\ nextId' = nextId + 1
     ELSE /\ authz' = [AuthzDone(authz, LoginRedirectTo(RequestUrl(authz.query)))
                        EXCEPT !.lookupFailed = TRUE]
          /\ UNCHANGED nextId
  /\ UNCHANGED <<now, store, db, tok, issued, granted, webVars>>

AuthzPayload(a) ==
  [userId |-> a.user.id, tenantId |-> a.user.tenantId,
   redirectUri |-> a.query.redirect_uri, clientId |-> a.query.client_id,
   scope |-> a.query.scope]

\* await cache.set(`oauth:code:...`, JSON.stringify({...}), 300), then redirect
AuthorizeCacheSet ==
  /\ authz.pc = "set"
  /\ \E ok \in BOOLEAN :
       /\ store' = CacheSet(store, CodeKey(authz.authCode),
                            JSONstringify(JsObject(AuthzPayload(authz))),
                            CODE_TTL, now, ok)
       /\ issued' =
            IF ok
            THEN [c \in DOMAIN issued \cup {authz.authCode} |->
                    IF c = authz.authCode
                    THEN [userId |-> authz.user.id,
                          tenantId |-> authz.user.tenantId,
                          redirectUri |-> authz.query.redirect_uri,
                          at |-> now]
                    ELSE issued[c]]
            ELSE issued
  /\ authz' = AuthzDone(authz, AuthzRedirect(authz.query.redirect_uri,
                                             authz.authCode))
  /\ UNCHANGED <<now, nextId, db, tok, granted, webVars>>

(***************************************************************************)
(* POST /api/oauth/token                                                   *)
(***************************************************************************)
\* the values a client presents: one never drawn, and those authorize can draw
HexValues == {BogusHex} \cup {RandomHex(n) : n \in 1..MaxCodes}

ClientCredentials ==
  {<<OAUTH_CLIENT_ID, OAUTH_CLIENT_SECRET>>,
   <<"other-client", OAUTH_CLIENT_SECRET>>,
   <<OAUTH_CLIENT_ID, "wrong-secret">>}

Body(grant, code, refresh, redirect, cred) ==
  [grant_type |-> grant, code |-> code, refresh_token |-> refresh,
   redirect_uri |-> redirect, client_id |-> cred[1], client_secret |-> cred[2]]

\* request bodies: a field the grant does not read is left out
TokenBodies ==
  {Body("authorization_code", c, Undefined, r, cred) :
      c \in HexValues \cup {Undefined}, r \in RedirectUris \cup {Undefined},
      cred \in ClientCredentials}
  \cup
  {Body("refresh_token", Undefined, t, Undefined, cred) :
      t \in HexValues \cup {Undefined}, cred \in ClientCredentials}
  \cup
  {Body(g, c, Undefined, Undefined, cred) :
      g \in {"password", Undefined}, c \in {BogusHex, Undefined},
      cred \in ClientCredentials}

\* the bodies of well-formed requests of the configured client
FlowBodies ==
  {b \in TokenBodies :
     /\ b.grant_type \in {"authorization_code", "refresh_token"}
     /\ ~(b.grant_type = "authorization_code" /\ b.code = Undefined)
     \* no refresh token was ever handed out with a value authorize drew
     /\ (b.grant_type = "refresh_token" => b.refresh_token = BogusHex)
     /\ b.client_id = OAUTH_CLIENT_ID
     /\ b.client_secret = OAUTH_CLIENT_SECRET}

NoBody == Body(Undefined, Undefined, Undefined, Undefined, <<Undefined, Undefined>>)

\* the store key a request presents
Presented(body) ==
  IF body.grant_type = "refresh_token"
  THEN RefreshKey(body.refresh_token)
  ELSE CodeKey(body.code)

IdleTok ==
  [pc |-> "idle", body |-> NoBody, data |-> JsNull, user |-> NoUser,
   token |-> NoToken, newRefresh |-> Undefined, resp |-> NoResponse,
   ops |-> <<>>, got |-> "none",
   afterOk |-> FALSE, stale |-> FALSE, conc |-> FALSE]

InFlight(r) == r.pc \notin {"idle", "done"}

\* the handler returns: its locals are gone, the response stays on record
TokDone(r, resp) ==
  [r EXCEPT !.pc = "done", !.resp = resp, !.data = JsNull, !.user = NoUser,
            !.token = NoToken, !.newRefresh = Undefined]

BadClient(body) ==
  body.client_id # OAUTH_CLIENT_ID \/ body.client_secret # OAUTH_CLIENT_SECRET

\* variant: every grant_type other than refresh_token is taken for
\* authorization_code
TokenValidate_NoGrantCheck(r) ==
  LET body == r.body IN
  IF body.grant_type = "refresh_token"
  THEN IF body.refresh_token = Undefined
       THEN TokDone(r, JsonError("invalid_request", "Refresh token is required", 400))
       ELSE IF BadClient(body)
       THEN TokDone(r, JsonError("invalid_client", "Invalid client credentials", 401))
       ELSE [r EXCEPT !.pc = "get"]
  ELSE IF BadClient(body)
  THEN TokDone(r, JsonError("invalid_client", "Invalid client credentials", 401))
  ELSE IF body.code = Undefined
  THEN TokDone(r, JsonError("invalid_request", "Authorization code is required", 400))
  ELSE [r EXCEPT !.pc = "get"]

\* route.ts 22-43 and 107-130: the checks made before the first cache.get
TokenValidate(r) ==
  LET body == r.body IN
  IF body.grant_type = "refresh_token"
  THEN IF body.refresh_token = Undefined
       THEN TokDone(r, JsonError("invalid_request", "Refresh token is required", 400))
       ELSE IF BadClient(body)
       THEN TokDone(r, JsonError("invalid_client", "Invalid client credentials", 401))
       ELSE [r EXCEPT !.pc = "get"]
  ELSE IF body.grant_type # "authorization_code"
  THEN TokDone(r, JsonError("unsupported_grant_type",
                            "Only authorization_code and refresh_token grant types are supported", 400))
  ELSE IF BadClient(body)
  THEN TokDone(r, JsonError("invalid_client", "Invalid client credentials", 401))
  ELSE IF body.code = Undefined
  THEN TokDone(r, JsonError("invalid_request", "Authorization code is required", 400))
  ELSE [r EXCEPT !.pc = "get"]

\* the request body arrives and is validated.  Slots are taken in order and
\* the responses already sent in other slots are forgotten.  Two requests
\* touch a common store key only when they present the same code or refresh
\* token, so the second slot takes the requests that do.
TokenStart(i, body) ==
  /\ ~InFlight(tok[i])
  /\ \A j \in Slots : j < i => InFlight(tok[j]) /\ Presented(tok[j].body) = Presented(body)
  /\ LET fresh == [IdleTok EXCEPT
                     !.body = body,
                     !.afterOk = Presented(body) \in DOMAIN granted,
                     !.stale = /\ body.grant_type = "authorization_code"
                               /\ body.code \in DOMAIN issued
                               /\ now > issued[body.code].at + CODE_TTL]
         mine == TokenValidate(fresh)
         overlaps(j) == /\ j # i
                        /\ InFlight(tok[j])
                        /\ InFlight(mine)
                        /\ Presented(tok[j].body) = Presented(body)
     IN tok' = [j \in Slots |->
                  IF j = i
                  THEN [mine EXCEPT !.conc = \E k \in Slots : overlaps(k)]
                  ELSE IF overlaps(j) THEN [tok[j] EXCEPT !.conc = TRUE]
                  ELSE IF InFlight(tok[j]) THEN tok[j]
                  ELSE IdleTok]
  /\ UNCHANGED <<now, store, nextId, db, authz, issued, granted, webVars>>

\* variant: the redirect_uri comparison is left out
RedirectMismatch_Skipped(redirect_uri, codeData) == FALSE

RedirectMismatch(redirect_uri, codeData) ==
  redirect_uri # Prop(codeData, "redirectUri")

\* route.ts 45-57 and 132-154: await cache.get and the checks on its result
\* (got: the command failed, or found the key absent, or found it)
\* variant: a store command that gets no answer is awaited for ever
AfterGet_NoTimeout(r, data, got) ==
  LET r1 == [r EXCEPT !.data = data, !.ops = Append(@, "get"), !.got = got] IN
  IF got = "fail"
  THEN [r1 EXCEPT !.pc = "hung"]
  ELSE IF r.body.grant_type = "refresh_token"
  THEN IF ~Truthy(data)
       THEN TokDone(r1, JsonError("invalid_grant", "Refresh token is invalid or expired", 400))
       ELSE [r1 EXCEPT !.pc = "findUser"]
  ELSE IF ~Truthy(data)
       THEN TokDone(r1, JsonError("invalid_grant", "Authorization code is invalid or expired", 400))
       ELSE IF RedirectMismatch(r.body.redirect_uri, data)
       THEN TokDone(r1, JsonError("invalid_grant", "redirect_uri does not match", 400))
       ELSE [r1 EXCEPT !.pc = "delete"]

\* route.ts 46-57 and 133-154: the code after await cache.get
AfterGet(r, data, got) ==
  LET r1 == [r EXCEPT !.data = data, !.ops = Append(@, "get"), !.got = got] IN
  IF r.body.grant_type = "refresh_token"
  THEN IF ~Truthy(data)
       THEN TokDone(r1, JsonError("invalid_grant", "Refresh token is invalid or expired", 400))
       ELSE [r1 EXCEPT !.pc = "findUser"]
  ELSE IF ~Truthy(data)
       THEN TokDone(r1, JsonError("invalid_grant", "Authorization code is invalid or expired", 400))
       ELSE IF RedirectMismatch(r.body.redirect_uri, data)
       THEN TokDone(r1, JsonError("invalid_grant", "redirect_uri does not match", 400))
       ELSE [r1 EXCEPT !.pc = "delete"]

TokenCacheGet(i) ==
  /\ tok[i].pc = "get"
  /\ \E ok \in BOOLEAN :
       tok' = [tok EXCEPT ![i] =
                 AfterGet(tok[i], CacheGet(store, Presented(tok[i].body), ok),
                          IF ~ok THEN "fail"
                          ELSE IF Presented(tok[i].body) \in DOMAIN store
                               THEN "hit" ELSE "miss")]
  /\ UNCHANGED <<now, store, nextId, db, authz, issued, granted, webVars>>

\* route.ts 59-83 and 159-183: await prisma.user.findUnique, signToken and
\* the new refresh token; an exception reaches the outer catch
AfterFindUser(r, d, n) ==
  LET res == FindUnique(d, Prop(r.data, "userId")) IN
  IF res.kind = "throw"
  THEN TokDone(r, JsonError("server_error", "An error occurred during token exchange", 500))
  ELSE IF res.kind = "null"
  THEN TokDone(r, JsonError("invalid_grant", "User not found", 400))
  ELSE [r EXCEPT !.user = res.user, !.token = signToken(d, res.user),
                 !.newRefresh = RandomHex(n),
                 !.pc = IF r.body.grant_type = "refresh_token"
                        THEN "delete" ELSE "set"]

TokenFindUser(i) ==
  /\ tok[i].pc = "findUser"
  /\ LET r == AfterFindUser(tok[i], db, nextId) IN
     /\ r.pc # "done" => nextId <= MaxIds
     /\ tok' = [tok EXCEPT ![i] = r]
     /\ nextId' = IF r.pc = "done" THEN nextId ELSE nextId + 1
  /\ UNCHANGED <<now, store, db, authz, issued, granted, webVars>>

RefreshPayload(r) ==
  [NoFields EXCEPT !.userId = r.user.id, !.tenantId = r.user.tenantId,
                   !.clientId = r.body.client_id]

\* route.ts 85-104 and 156-157, 185-203: await cache.delete of the presented
\* key, or await cache.set of the new refresh token followed by the response
TokenCacheWrite(i) ==
  /\ tok[i].pc \in {"delete", "set"}
  /\ \E ok \in BOOLEAN :
       LET r == tok[i] IN
       IF r.pc = "delete"
       THEN /\ store' = CacheDelete(store, Presented(r.body), ok)
            /\ tok' = [tok EXCEPT ![i] =
                         [r EXCEPT !.ops = Append(@, "delete"),
                                   !.pc = IF r.body.grant_type = "refresh_token"
                                          THEN "set" ELSE "findUser"]]
            /\ UNCHANGED granted
       ELSE /\ store' = CacheSet(store, RefreshKey(r.newRefresh),
                                 JSONstringify(JsObject(RefreshPayload(r))),
                                 REFRESH_TTL, now, ok)
            /\ tok' = [tok EXCEPT ![i] =
                         TokDone([r EXCEPT !.ops = Append(@, "set")],
                                 TokenResponse(r.token, r.newRefresh,
                                   IF r.body.grant_type = "refresh_token"
                                   THEN Undefined ELSE Prop(r.data, "scope")))]
            /\ granted' =
                 [k \in DOMAIN granted \cup {Presented(r.body)} |->
                    IF k = Presented(r.body)
                    THEN (IF k \in DOMAIN granted THEN granted[k] ELSE 0) + 1
                    ELSE granted[k]]
  /\ UNCHANGED <<now, nextId, db, authz, issued, webVars>>

(***************************************************************************)
(* Time passes: Redis expires the keys whose time to live has elapsed.     *)
(***************************************************************************)
Tick ==
  /\ now < MaxTicks * TickSeconds
  /\ now' = now + TickSeconds
  /\ store' = Expire(store, now')
  /\ UNCHANGED <<nextId, db, authz, tok, issued, granted, webVars>>

(***************************************************************************)
(* Session tokens: POST /api/auth/login, and the Authorization header.     *)
(***************************************************************************)
Modules == {"crm", "invoicing"}

\* a signed token, and one that does not verify (forged, expired, garbled)
Jwt(payload) == [kind |-> "jwt", userId |-> payload.userId, payload |-> payload]
BadJwt == [kind |-> "bad", userId |-> Undefined, payload |-> NoToken]

\* verifyToken of @/lib/auth/jwt: the whole payload, or an exception
verifyJwt(token) ==
  IF token.kind = "jwt"
  THEN [kind |-> "payload", payload |-> token.payload]
  ELSE [kind |-> "throw", payload |-> NoToken]

\* request.headers.get('authorization')
NoHeader == [scheme |-> "none", token |-> BadJwt]
BasicHeader == [scheme |-> "Basic", token |-> BadJwt]
Bearer(token) == [scheme |-> "Bearer", token |-> token]

\* !authHeader || !authHeader.startsWith('Bearer ')
NotBearer(header) == header.scheme # "Bearer"

\* the headers a client can send: it can only present tokens it was given
Headers == {NoHeader, BasicHeader, Bearer(BadJwt)} \cup {Bearer(t) : t \in held}

\* login: the user is found by email with its tenant, the password compared,
\* lastLoginAt updated and the token signed from the row that was read; a
\* wrong email or password is answered 401 and changes nothing
Login(u, passwordOk) ==
  /\ u \in DOMAIN db.users
  /\ passwordOk
  /\ LET token == Jwt(signToken(db, db.users[u])) IN
       /\ Cardinality(held \cup {token}) <= MaxLogins
       /\ held' = held \cup {token}
  /\ UNCHANGED <<now, store, nextId, db, authz, tok, issued, granted, ui, adm, billVars>>

\* POST /api/auth/register: the email (u) and the subdomain (t) must be new;
\* tenant and user are created in one transaction, the user with role
\* 'owner', and a token with no modules and tier 'free' is signed.  A taken
\* email or subdomain is answered 400 and changes nothing.  The registrant
\* may go on with the token (keep) or drop it and log in later.
Register(u, t) ==
  /\ u \notin DOMAIN db.users
  /\ t \notin DOMAIN db.tenants
  /\ LET user == [id |-> u, tenantId |-> t, role |-> "owner"]
         token == Jwt([userId |-> u, tenantId |-> t, role |-> "owner",
                       licensedModules |-> {}, subscriptionTier |-> "free"])
     IN /\ db' = [users |-> [v \in DOMAIN db.users \cup {u} |->
                               IF v = u THEN user ELSE db.users[v]],
                  tenants |-> [x \in DOMAIN db.tenants \cup {t} |->
                                 IF x = t
                                 THEN [licensedModules |-> {},
                                       subscriptionTier |-> "free"]
                                 ELSE db.tenants[x]]]
        /\ \E keep \in BOOLEAN :
             held' = IF keep /\ Cardinality(held \cup {token}) <= MaxLogins
                     THEN held \cup {token} ELSE held
  /\ UNCHANGED <<now, store, nextId, authz, tok, issued, granted, ui, adm, billVars>>

\* a user row is deleted from the table while tokens signed for it are held
UserRemoved(u) ==
  /\ u \in DOMAIN db.users
  /\ \E t \in held : t.userId = u
  /\ db' = [db EXCEPT !.users = [v \in DOMAIN db.users \ {u} |-> db.users[v]]]
  /\ UNCHANGED <<now, store, nextId, authz, tok, issued, granted, webVars>>

(***************************************************************************)
(* GET /api/oauth/userinfo                                                 *)
(***************************************************************************)
NoClaims ==
  [sub |-> Undefined, role |-> Undefined, tenant_id |-> Undefined,
   licensed_modules |-> {}, subscription_tier |-> Undefined]

UiError(error, status) == [status |-> status, error |-> error, claims |-> NoClaims]

Unauthorized == UiError("unauthorized", 401)
InvalidToken == UiError("invalid_token", 401)

UserNotFound_AsInvalidToken == InvalidToken

UserNotFound == UiError("user_not_found", 404)

UserInfoClaims_FromToken(d, user, payload) ==
  [sub |-> user.id, role |-> user.role, tenant_id |-> user.tenantId,
   licensed_modules |-> payload.licensedModules,
   subscription_tier |-> payload.subscriptionTier]

\* the claims of the 200 answer, from the row and its tenant as just read
UserInfoClaims(d, user, payload) ==
  [sub |-> user.id, role |-> user.role, tenant_id |-> user.tenantId,
   licensed_modules |->
     IF user.tenantId \in DOMAIN d.tenants
     THEN d.tenants[user.tenantId].licensedModules ELSE {},
   subscription_tier |->
     IF user.tenantId \in DOMAIN d.tenants
          /\ d.tenants[user.tenantId].subscriptionTier # Undefined
     THEN d.tenants[user.tenantId].subscriptionTier ELSE "free"]

UiOk(claims) == [status |-> 200, error |-> Undefined, claims |-> claims]

NoUiResponse == UiError(Undefined, 0)

\* lookupFailed: the user lookup of this request raised an error
IdleUi ==
  [pc |-> "idle", header |-> NoHeader, resp |-> NoUiResponse,
   lookupFailed |-> FALSE]

UiDone(r, resp) == [r EXCEPT !.pc = "done", !.resp = resp]

\* a request record that was answered is not kept when another handler starts
Forget(r, idle) == IF r.pc = "done" THEN idle ELSE r

(***************************************************************************)
(* PATCH /api/admin/tenants/[tenantId]/modules: records                    *)
(***************************************************************************)
\* the tenant ids of the path: the tenants, and an id no tenant has
PathTenants == Tenants \cup {"t9"}

\* request bodies: { licensedModules: [...] }, or one the schema rejects
ModulesBody(m) == [valid |-> TRUE, licensedModules |-> m]
InvalidBody == [valid |-> FALSE, licensedModules |-> {}]
PatchBodies == {ModulesBody({}), ModulesBody(Modules), InvalidBody}

AdmResponse(error, status) == [status |-> status, error |-> error]
NoAdmResponse == AdmResponse(Undefined, 0)

\* role: the role read from the user table by this request
IdleAdm ==
  [pc |-> "idle", header |-> NoHeader, tenantId |-> Undefined,
   body |-> InvalidBody, role |-> Undefined, resp |-> NoAdmResponse]

AdmDone(r, resp) == [r EXCEPT !.pc = "done", !.resp = resp]

(***************************************************************************)
(* GET /api/oauth/userinfo: the handler                                    *)
(***************************************************************************)
\* header check and verifyToken, up to the user lookup
UserInfoStart(header) ==
  /\ ui.pc \in {"idle", "done"}
  /\ LET r == [IdleUi EXCEPT !.header = header] IN
     ui' = IF NotBearer(header) THEN UiDone(r, Unauthorized)
           ELSE IF verifyToken(header.token).kind = "throw"
           THEN UiDone(r, InvalidToken)
           ELSE [r EXCEPT !.pc = "findUser"]
  /\ adm' = Forget(adm, IdleAdm)
  /\ UNCHANGED <<now, store, nextId, db, authz, tok, issued, granted, held, billVars>>

\* await prisma.user.findUnique with the tenant, then the answer; an error
\* of the lookup is caught by the handler that catches verifyToken's
UserInfoFindUser ==
  /\ ui.pc = "findUser"
  /\ \E dbOk \in BOOLEAN :
       LET payload == verifyToken(ui.header.token)
           res == FindUnique(db, payload.userId)
       IN ui' =
            IF ~dbOk \/ res.kind = "throw"
            THEN [UiDone(ui, InvalidToken) EXCEPT !.lookupFailed = TRUE]
            ELSE IF res.kind = "null"
            THEN UiDone(ui, UserNotFound)
            ELSE UiDone(ui, UiOk(UserInfoClaims(db, res.user,
                                                ui.header.token.payload)))
  /\ UNCHANGED <<now, store, nextId, db, authz, tok, issued, granted, held, adm, billVars>>

(***************************************************************************)
(* PATCH /api/admin/tenants/[tenantId]/modules: the handler                *)
(***************************************************************************)
IsAdminRole_Any(role) == TRUE

\* user?.role is 'owner' or 'admin'
IsAdminRole(role) == role \in {"owner", "admin"}

\* header check, verifyToken and the payload check, up to the user lookup
PatchStart(header, tenantId, body) ==
  /\ adm.pc \in {"idle", "done"}
  /\ LET r == [IdleAdm EXCEPT !.header = header, !.tenantId = tenantId,
                              !.body = body]
         v == verifyJwt(header.token)
     IN adm' =
          IF NotBearer(header) THEN AdmDone(r, AdmResponse("Unauthorized", 401))
          ELSE IF v.kind = "throw"
          THEN AdmDone(r, AdmResponse("Invalid or expired token", 401))
          ELSE IF v.payload.userId = Undefined \/ v.payload.tenantId = Undefined
          THEN AdmDone(r, AdmResponse("Invalid token", 401))
          ELSE [r EXCEPT !.pc = "findUser"]
  /\ ui' = Forget(ui, IdleUi)
  /\ UNCHANGED <<now, store, nextId, db, authz, tok, issued, granted, held, billVars>>

\* await prisma.user.findUnique({ select: { role } }), then the role checks
PatchFindUser ==
  /\ adm.pc = "findUser"
  /\ LET payload == verifyJwt(adm.header.token).payload
         res == FindUnique(db, payload.userId)
         role == res.user.role
     IN adm' =
          IF ~IsAdminRole(role)
          THEN AdmDone(adm, AdmResponse("Unauthorized: Admin access required", 403))
          ELSE IF payload.tenantId # adm.tenantId /\ role # "owner"
          THEN AdmDone(adm, AdmResponse("Unauthorized: Cannot modify other tenants", 403))
          ELSE IF adm.tenantId = Undefined
          THEN AdmDone(adm, AdmResponse("Tenant ID is required", 400))
          ELSE [adm EXCEPT !.pc = "findTenant", !.role = role]
  /\ UNCHANGED <<now, store, nextId, db, authz, tok, issued, granted, held, ui, billVars>>

\* await prisma.tenant.findUnique, then request.json() and the schema
PatchFindTenant ==
  /\ adm.pc = "findTenant"
  /\ adm' =
       IF adm.tenantId \notin DOMAIN db.tenants
       THEN AdmDone(adm, AdmResponse("Tenant not found", 404))
       ELSE IF ~adm.body.valid
       THEN AdmDone(adm, AdmResponse("Validation error", 400))
       ELSE [adm EXCEPT !.pc = "update"]
  /\ UNCHANGED <<now, store, nextId, db, authz, tok, issued, granted, held, ui, billVars>>

\* await prisma.tenant.update({ data: { licensedModules } }), then 200
PatchUpdate ==
  /\ adm.pc = "update"
  /\ db' = [db EXCEPT !.tenants[adm.tenantId].licensedModules =
                        adm.body.licensedModules]
  /\ adm' = AdmDone(adm, AdmResponse(Undefined, 200))
  /\ UNCHANGED <<now, store, nextId, authz, tok, issued, granted, held, ui, billVars>>

(***************************************************************************)
(* POST /api/billing/webhook                                               *)
(***************************************************************************)
\* orders created by checkout: status 'pending', the tenant and the module
\* ids of the cart (they travel to the gateway and back as udf1, udf2, udf3)
Orders == {"o1", "o2"}

InitOrders ==
  [o \in Orders |->
     [id |-> o, status |-> "pending",
      tenantId |-> IF o = "o1" THEN "t1" ELSE "t2",
      moduleIds |-> {"invoicing"}]]

NoOrder ==
  [id |-> Undefined, status |-> Undefined, tenantId |-> Undefined,
   moduleIds |-> {}]

\* response_code: 0 paid, 1043 cancelled by the payer, anything else failed
ResponseCodes == {0, 1043, 1007}

\* a delivery: the order id (udf1), the response code, and whether
\* verifyWebhookSignature accepts the body
WebhookBodies ==
  [udf1 : Orders \cup {"o9", Undefined}, response_code : ResponseCodes, signed : BOOLEAN]

NoWebhookBody == [udf1 |-> Undefined, response_code |-> -1, signed |-> FALSE]

WhResponse(error, status, orderStatus) ==
  [status |-> status, error |-> error, orderStatus |-> orderStatus]

NoWhResponse == WhResponse(Undefined, 0, Undefined)

\* order: the row read by findFirst; orderStatus, updatedModules: the
\* handler's variables of these names
IdleWh ==
  [pc |-> "idle", body |-> NoWebhookBody, order |-> NoOrder,
   orderStatus |-> Undefined, updatedModules |-> {}, resp |-> NoWhResponse]

WhDone(r, resp) ==
  [r EXCEPT !.pc = "done", !.resp = resp, !.order = NoOrder,
            !.orderStatus = Undefined, !.updatedModules = {}]

\* await request.json(), the order identifier check
WebhookStart(body) ==
  /\ wh.pc \in {"idle", "done"}
  /\ LET r == [IdleWh EXCEPT !.body = body] IN
     wh' = IF body.udf1 = Undefined
           THEN WhDone(r, WhResponse("Missing order identifier", 400, Undefined))
           ELSE [r EXCEPT !.pc = "findOrder"]
  /\ UNCHANGED <<now, store, nextId, db, authz, tok, issued, granted,
                 held, ui, adm, orders>>

\* the status the delivery gives the order: lines 76-80 and 158-166
OrderStatusFor(code, current) ==
  IF code = 0 THEN "confirmed" ELSE "cancelled"

\* await prisma.order.findFirst, the signature check and the status decision
WebhookFindOrder ==
  /\ wh.pc = "findOrder"
  /\ wh' =
       IF wh.body.udf1 \notin DOMAIN orders
       THEN WhDone(wh, WhResponse("Order not found", 404, Undefined))
       ELSE IF ~wh.body.signed
       THEN WhDone(wh, WhResponse("Invalid signature", 401, Undefined))
       ELSE LET order == orders[wh.body.udf1] IN
            [wh EXCEPT !.order = order,
                       !.orderStatus =
                          OrderStatusFor(wh.body.response_code, order.status),
                       !.pc = IF wh.body.response_code = 0
                              THEN "findTenant" ELSE "updateOrder"]
  /\ UNCHANGED <<now, store, nextId, db, authz, tok, issued, granted,
                 held, ui, adm, orders>>

\* await prisma.tenant.findUnique: the union of the tenant's modules and the
\* order's
WebhookFindTenant ==
  /\ wh.pc = "findTenant"
  /\ LET t == wh.order.tenantId
         currentModules == IF t \in DOMAIN db.tenants
                           THEN db.tenants[t].licensedModules ELSE {}
     IN wh' = [wh EXCEPT !.updatedModules = currentModules \cup wh.order.moduleIds,
                         !.pc = "updateTenant"]
  /\ UNCHANGED <<now, store, nextId, db, authz, tok, issued, granted,
                 held, ui, adm, orders>>

\* await prisma.tenant.update (and the subscription upsert, which is not part
\* of this model); a missing tenant makes update throw: 500
WebhookUpdateTenant ==
  /\ wh.pc = "updateTenant"
  /\ LET t == wh.order.tenantId IN
     IF t \in DOMAIN db.tenants
     THEN /\ db' = [db EXCEPT !.tenants[t] =
                      [licensedModules |-> wh.updatedModules,
                       subscriptionTier |-> "professional"]]
          /\ wh' = [wh EXCEPT !.pc = "confirmOrder"]
     ELSE /\ wh' = WhDone(wh, WhResponse("Webhook processing failed", 500, Undefined))
          /\ UNCHANGED db
  /\ UNCHANGED <<now, store, nextId, authz, tok, issued, granted,
                 held, ui, adm, orders>>

\* await prisma.order.update({ status: orderStatus, paidAt }), then the
\* confirmation email, whose failure is ignored
WebhookConfirmOrder ==
  /\ wh.pc = "confirmOrder"
  /\ orders' = [orders EXCEPT ![wh.order.id].status = wh.orderStatus]
  /\ wh' = [wh EXCEPT !.pc = "updateOrder"]
  /\ UNCHANGED <<now, store, nextId, db, authz, tok, issued, granted,
                 held, ui, adm>>

\* await prisma.order.update({ status: orderStatus, notes }), then 200
WebhookUpdateOrder ==
  /\ wh.pc = "updateOrder"
  /\ orders' = [orders EXCEPT ![wh.order.id].status = wh.orderStatus]
  /\ wh' = WhDone(wh, WhResponse(Undefined, 200, wh.orderStatus))
  /\ UNCHANGED <<now, store, nextId, db, authz, tok, issued, granted,
                 held, ui, adm>>

(***************************************************************************)
(* The system.                                                             *)
(***************************************************************************)
InitDb ==
  [users |-> [u \in Users |->
                [id |-> u, tenantId |-> IF u = "u1" THEN "t1" ELSE "t2",
                 role |-> "owner"]],
   tenants |-> [t \in Tenants |->
                  [licensedModules |-> {"crm"}, subscriptionTier |-> "free"]]]

Init ==
  /\ now = 0
  /\ store = <<>>
  /\ nextId = 1
  /\ db = InitDb
  /\ authz = IdleAuthz
  /\ tok = [i \in Slots |-> IdleTok]
  /\ issued = <<>>
  /\ granted = <<>>
  /\ held = {}
  /\ ui = IdleUi
  /\ adm = IdleAdm
  /\ orders = InitOrders
  /\ wh = IdleWh

\* the authorization-code flow of logged-in users: any number of requests,
\* up to two token requests at a time (Slots), store commands may fail
Next ==
  \/ \E q \in FlowQueries, c \in FlowCookies : AuthorizeStart(q, c)
  \/ AuthorizeFindUser(TRUE)
  \/ AuthorizeCacheSet
  \/ \E i \in Slots, b \in FlowBodies : TokenStart(i, b)
  \/ \E i \in Slots : TokenCacheGet(i)
  \/ \E i \in Slots : TokenFindUser(i)
  \/ \E i \in Slots : TokenCacheWrite(i)
  \/ Tick

Spec == Init /\ [][Next]_vars

\* one token request at a time, with every request body
NextAnyBody ==
  \/ \E q \in FlowQueries, c \in FlowCookies : AuthorizeStart(q, c)
  \/ AuthorizeFindUser(TRUE)
  \/ AuthorizeCacheSet
  \/ \E b \in TokenBodies : TokenStart(1, b)
  \/ TokenCacheGet(1)
  \/ TokenFindUser(1)
  \/ TokenCacheWrite(1)
  \/ Tick

SpecAnyBody == Init /\ [][NextAnyBody]_vars

\* the authorize endpoint alone, with any query and any cookie, while users
\* log in, user rows are deleted and user lookups may raise errors
NextAuthorize ==
  \/ \E query \in AuthorizeQueries, cookie \in Cookies :
        AuthorizeStart(query, cookie)
  \/ \E dbOk \in BOOLEAN : AuthorizeFindUser(dbOk)
  \/ AuthorizeCacheSet
  \/ Tick
  \/ \E u \in DOMAIN db.users : Login(u, TRUE)
  \/ \E u \in DOMAIN db.users : UserRemoved(u)

SpecAuthorize == Init /\ [][NextAuthorize]_vars

\* all three OAuth endpoints, one token request at a time; every awaited
\* operation settles: cache.get and cache.set race against a 100 ms timer,
\* cache.delete is bounded by the client's commandTimeout, and all three
\* catch their errors, so a handler that waits is resumed (weak fairness of
\* each continuation)
NextLive ==
  \/ \E q \in FlowQueries, c \in FlowCookies : AuthorizeStart(q, c)
  \/ \E dbOk \in BOOLEAN : AuthorizeFindUser(dbOk)
  \/ AuthorizeCacheSet
  \/ \E b \in FlowBodies : TokenStart(1, b)
  \/ TokenCacheGet(1)
  \/ TokenFindUser(1)
  \/ TokenCacheWrite(1)
  \/ Login("u1", TRUE)
  \/ \E header \in Headers : UserInfoStart(header)
  \/ UserInfoFindUser

SpecLive ==
  /\ Init
  /\ [][NextLive]_vars
  /\ WF_vars(\E dbOk \in BOOLEAN : AuthorizeFindUser(dbOk))
  /\ WF_vars(AuthorizeCacheSet)
  /\ WF_vars(TokenCacheGet(1))
  /\ WF_vars(TokenFindUser(1))
  /\ WF_vars(TokenCacheWrite(1))
  /\ WF_vars(UserInfoFindUser)

\* tenants register, their owners log in and update module licensing
InitTenants ==
  /\ now = 0
  /\ store = <<>>
  /\ nextId = 1
  /\ db = [users |-> <<>>, tenants |-> <<>>]
  /\ authz = IdleAuthz
  /\ tok = [i \in Slots |-> IdleTok]
  /\ issued = <<>>
  /\ granted = <<>>
  /\ held = {}
  /\ ui = IdleUi
  /\ adm = IdleAdm
  /\ orders = InitOrders
  /\ wh = IdleWh

NextTenants ==
  \/ \E u \in Users, t \in Tenants : Register(u, t)
  \/ \E u \in DOMAIN db.users : Login(u, TRUE)
  \/ \E header \in Headers, tenantId \in Tenants, body \in PatchBodies :
        PatchStart(header, tenantId, body)
  \/ PatchFindUser
  \/ PatchFindTenant
  \/ PatchUpdate

SpecTenants == InitTenants /\ [][NextTenants]_vars

\* payment callbacks for the pending orders, one delivery at a time
NextBilling ==
  \/ \E body \in WebhookBodies : WebhookStart(body)
  \/ WebhookFindOrder
  \/ WebhookFindTenant
  \/ WebhookUpdateTenant
  \/ WebhookConfirmOrder
  \/ WebhookUpdateOrder

SpecBilling == Init /\ [][NextBilling]_vars

\* the user table of the licensing scenario: an owner and a member of t1,
\* an admin of t2
WebDb ==
  [users |->
     [u \in {"u1", "u2", "u3"} |->
        [id |-> u,
         tenantId |-> IF u = "u2" THEN "t2" ELSE "t1",
         role |-> IF u = "u1" THEN "owner"
                  ELSE IF u = "u2" THEN "admin" ELSE "member"]],
   tenants |-> [t \in Tenants |->
                  [licensedModules |-> {"crm"}, subscriptionTier |-> "free"]]]

InitWeb ==
  /\ now = 0
  /\ store = <<>>
  /\ nextId = 1
  /\ db = WebDb
  /\ authz = IdleAuthz
  /\ tok = [i \in Slots |-> IdleTok]
  /\ issued = <<>>
  /\ granted = <<>>
  /\ held = {}
  /\ ui = IdleUi
  /\ adm = IdleAdm
  /\ orders = InitOrders
  /\ wh = IdleWh

\* logins, userinfo requests and module updates, in any interleaving
NextWeb ==
  \/ \E u \in DOMAIN db.users \cup {"nobody"}, passwordOk \in BOOLEAN :
        Login(u, passwordOk)
  \/ \E u \in DOMAIN db.users : UserRemoved(u)
  \/ \E header \in Headers : UserInfoStart(header)
  \/ UserInfoFindUser
  \/ \E header \in Headers, tenantId \in PathTenants, body \in PatchBodies :
        PatchStart(header, tenantId, body)
  \/ PatchFindUser
  \/ PatchFindTenant
  \/ PatchUpdate

SpecWeb == InitWeb /\ [][NextWeb]_vars

(***************************************************************************)
(* Properties.                                                             *)
(***************************************************************************)
Done(i) == tok[i].pc = "done"

CodeGrant(r) == r.body.grant_type = "authorization_code"
RefreshGrant(r) == r.body.grant_type = "refresh_token"

\* the request presents a code that authorize has stored
ForIssuedCode(r) == CodeGrant(r) /\ r.body.code \in DOMAIN issued

MatchingRedirect(r) == r.body.redirect_uri = issued[r.body.code].redirectUri

InvalidGrant(resp) == resp.status = 400 /\ resp.error = "invalid_grant"

NoTokenIssued(resp) ==
  resp.access_token = NoToken /\ resp.refresh_token = Undefined

\* The token endpoint never answers 200: the payload comes back from the
\* cache as a string, so its redirectUri and userId read as undefined.
NeverGranted == granted = <<>> /\ \A i \in Slots : tok[i].resp.status # 200

NeverIssuedResponse ==
  JsonError("invalid_grant", "Authorization code is invalid or expired", 400)

C5_ExpiredCodeAsNeverIssued ==
  \A i \in Slots :
    (Done(i) /\ CodeGrant(tok[i])
       /\ (tok[i].stale \/ tok[i].body.code = BogusHex))
    => (tok[i].resp = NeverIssuedResponse /\ tok[i].ops = <<"get">>)

\* a code was stored, more than 300 seconds passed, a request presented it
\* and the store answered the lookup
C5_Witness ==
  \E i \in Slots :
    Done(i) /\ ForIssuedCode(tok[i]) /\ tok[i].stale /\ tok[i].got = "miss"

\* C6: a code stored with redirect_uri A and presented with a redirect_uri B
\* different from A is answered invalid_grant (400) and no access token or
\* refresh token is issued.
C6_RedirectBinding ==
  \A i \in Slots :
    (Done(i) /\ ForIssuedCode(tok[i])
       /\ tok[i].body.redirect_uri \in RedirectUris
       /\ ~MatchingRedirect(tok[i]))
    => (InvalidGrant(tok[i].resp) /\ NoTokenIssued(tok[i].resp))

\* the code was present and unexpired when the request with the other
\* redirect_uri read it
C6_Witness ==
  \E i \in Slots :
    /\ Done(i) /\ ForIssuedCode(tok[i]) /\ tok[i].got = "hit"
    /\ tok[i].body.redirect_uri \in RedirectUris
    /\ ~MatchingRedirect(tok[i])
    /\ tok[i].resp.error_description = "redirect_uri does not match"

\* C7: a code issued to user U of tenant T for redirect_uri R and presented
\* with redirect_uri R and the configured client credentials while it is in
\* the store is answered 200 with an access token for U and T, token_type
\* Bearer, expires_in 86400 and a refresh token that differs from the code.
C7_SuccessfulExchange ==
  \A i \in Slots :
    (Done(i) /\ ForIssuedCode(tok[i]) /\ MatchingRedirect(tok[i])
       /\ ~BadClient(tok[i].body) /\ tok[i].got = "hit" /\ ~tok[i].conc)
    => /\ tok[i].resp.status = 200
       /\ tok[i].resp.access_token.userId = issued[tok[i].body.code].userId
       /\ tok[i].resp.access_token.tenantId = issued[tok[i].body.code].tenantId
       /\ tok[i].resp.token_type = "Bearer"
       /\ tok[i].resp.expires_in = EXPIRES_IN
       /\ tok[i].resp.refresh_token \notin {Undefined, tok[i].body.code}

\* C8: a request of either grant whose client_id or client_secret differs
\* from the configured pair is answered invalid_client (401) and issues no
\* store command.
C8_ClientCheckedFirst ==
  \A i \in Slots :
    (Done(i) /\ (CodeGrant(tok[i]) \/ RefreshGrant(tok[i]))
       /\ BadClient(tok[i].body))
    => /\ tok[i].resp.status = 401
       /\ tok[i].resp.error = "invalid_client"
       /\ tok[i].ops = <<>>

\* C9: a request whose grant_type is neither authorization_code nor
\* refresh_token (a missing grant_type included) is answered
\* unsupported_grant_type (400) and issues no store command.
C9_UnsupportedGrant ==
  \A i \in Slots :
    (Done(i) /\ ~CodeGrant(tok[i]) /\ ~RefreshGrant(tok[i]))
    => /\ tok[i].resp.status = 400
       /\ tok[i].resp.error = "unsupported_grant_type"
       /\ NoTokenIssued(tok[i].resp)
       /\ tok[i].ops = <<>>

\* a request without grant_type, with valid client credentials, was answered
\* while a code was in the store
C9_Witness ==
  \E i \in Slots :
    /\ Done(i) /\ tok[i].body.grant_type = Undefined
    /\ ~BadClient(tok[i].body)
    /\ DOMAIN store # {}

\* C10: a token request whose cache.get failed or timed out is answered
\* invalid_grant (400) and issues no access token or refresh token.
C10_StoreOutageNoGrant ==
  \A i \in Slots :
    (Done(i) /\ tok[i].got = "fail")
    => (InvalidGrant(tok[i].resp) /\ NoTokenIssued(tok[i].resp))

\* the lookup failed for a code that is in the store
C10_Witness ==
  \E i \in Slots :
    /\ Done(i) /\ tok[i].got = "fail"
    /\ Presented(tok[i].body) \in DOMAIN store

(***************************************************************************)
(* C11 No fabricated code: when the authorize endpoint has redirected to   *)
(* the redirect_uri with a code, that code's payload was written to the    *)
(* store; a request whose store write failed or timed out does not carry   *)
(* a code in its redirect.                                                 *)
(***************************************************************************)
C11_NoFabricatedCode ==
  (authz.pc = "done" /\ authz.resp.kind = "redirect"
     /\ authz.resp.code # Undefined)
  => authz.resp.code \in DOMAIN issued

\* the error the parameter validation of authorize owes a query, in the
\* order client_id, response_type, redirect_uri
OwedAuthorizeError(query) ==
  IF query.client_id # OAUTH_CLIENT_ID THEN "invalid_client"
  ELSE IF query.response_type # "code" THEN "unsupported_response_type"
  ELSE IF query.redirect_uri = Undefined THEN "invalid_request"
  ELSE Undefined

BadParams(query) == OwedAuthorizeError(query) # Undefined

\* the request has no session: cookie absent, or its token does not verify
NoSession(cookie) == cookie.kind = "none" \/ verifyToken(cookie).kind = "throw"

\* a step in which the authorize endpoint takes or advances a request
AuthorizeStep == authz' # authz /\ authz'.pc # "idle"

(***************************************************************************)
(* C12 Authorize validation order: a request whose client_id is not the    *)
(* configured one is answered invalid_client; otherwise one whose          *)
(* response_type is not "code" is answered unsupported_response_type;      *)
(* otherwise one without redirect_uri is answered invalid_request.  Each   *)
(* is a JSON error given at once, with no code stored and no redirect,     *)
(* whatever the cookie.                                                    *)
(***************************************************************************)
C12_AuthorizeValidationOrder ==
  [][(AuthorizeStep /\ BadParams(authz'.query))
       => /\ authz'.pc = "done"
          /\ authz'.resp.kind = "json"
          /\ authz'.resp.error = OwedAuthorizeError(authz'.query)
          /\ authz'.resp.location = Undefined
          /\ authz'.resp.code = Undefined
          /\ store' = store /\ issued' = issued /\ nextId' = nextId]_vars

\* a request with a valid session cookie, a wrong response_type and no
\* redirect_uri has been answered for its response_type
C12_Witness ==
  /\ authz.pc = "done"
  /\ authz.query.client_id = OAUTH_CLIENT_ID
  /\ authz.query.response_type = "token"
  /\ authz.query.redirect_uri = Undefined
  /\ authz.cookie.kind = "jwt"
  /\ authz.resp.error = "unsupported_response_type"

(***************************************************************************)
(* C13 Login redirect: a request with valid parameters whose cookie is     *)
(* absent, or whose token fails verification, is answered by a redirect to *)
(* /login whose `redirect` parameter is the original request URL, and no   *)
(* code is created.                                                        *)
(***************************************************************************)
C13_LoginRedirect ==
  [][(AuthorizeStep /\ ~BadParams(authz'.query) /\ NoSession(authz'.cookie))
       => /\ authz'.pc = "done"
          /\ authz'.resp.kind = "redirect"
          /\ authz'.resp.location = "/login"
          /\ authz'.resp.redirect = RequestUrl(authz'.query)
          /\ authz'.resp.code = Undefined
          /\ store' = store /\ issued' = issued /\ nextId' = nextId]_vars

\* a request with valid parameters and a cookie that does not verify has
\* been sent to the login page
C13_Witness ==
  /\ authz.pc = "done"
  /\ ~BadParams(authz.query)
  /\ authz.cookie = BadCookie
  /\ authz.resp.location = "/login"

\* a step in which the userinfo endpoint answers a request
UserInfoAnswered == ui' # ui /\ ui'.pc = "done"

C16_AdminOnlyModuleUpdate ==
  [][(\E t \in Tenants :
        db'.tenants[t].licensedModules # db.tenants[t].licensedModules)
       => /\ adm.pc = "update" /\ adm'.pc = "done" /\ adm'.resp.status = 200
          /\ adm.role \in {"owner", "admin"}
          /\ LET u == adm.header.token.userId IN
               u \in DOMAIN db.users => db.users[u].role = adm.role]_vars

\* a member's request for its own tenant was refused and nothing was changed
C16_Witness ==
  /\ adm.pc = "done" /\ adm.resp.status = 403
  /\ adm.header.token.kind = "jwt"
  /\ adm.header.token.payload.role = "member"
  /\ adm.header.token.payload.tenantId = adm.tenantId
  /\ adm.body.valid
  /\ db.tenants = WebDb.tenants

(***************************************************************************)
(* C17 Store round trip: for every code whose payload authorize has        *)
(* written and that is still in the store, a get of its key on a working   *)
(* store yields a value whose fields userId, tenantId and redirectUri      *)
(* equal those that were written.                                          *)
(***************************************************************************)
C17_StoreRoundTrip ==
  \A c \in DOMAIN issued :
    CodeKey(c) \in DOMAIN store
      => LET v == CacheGet(store, CodeKey(c), TRUE) IN
           /\ Prop(v, "userId") = issued[c].userId
           /\ Prop(v, "tenantId") = issued[c].tenantId
           /\ Prop(v, "redirectUri") = issued[c].redirectUri

(***************************************************************************)
(* C18 Code is consumed on first read: a token request that has read a     *)
(* present code (its lookup returned the payload) leaves the code absent   *)
(* from the store when it is answered, whatever the answer, a redirect     *)
(* mismatch or a missing user included.                                    *)
(***************************************************************************)
C18_CodeConsumedOnFirstRead ==
  \A i \in Slots :
    (Done(i) /\ CodeGrant(tok[i]) /\ tok[i].got = "hit")
      => CodeKey(tok[i].body.code) \notin DOMAIN store

\* Lemma: no refresh token is ever in the store, so no refresh request gets
\* past its lookup: none reaches the user lookup, the delete or the signing
NoRefreshStored ==
  /\ \A t \in HexValues \cup {RandomHex(n) : n \in 1..MaxIds} :
       RefreshKey(t) \notin DOMAIN store
  /\ \A i \in Slots :
       RefreshGrant(tok[i]) => /\ tok[i].pc \in {"get", "done"}
                               /\ tok[i].got # "hit"
                               /\ "delete" \notin {tok[i].ops[k] : k \in DOMAIN tok[i].ops}

\* Lemma: the token endpoint never signs a token: no request gets past its
\* user lookup with a user (the payload read back is a string, so the lookup
\* is made with an undefined id, or the request was rejected before)
NeverSigned ==
  \A i \in Slots :
    /\ tok[i].token = NoToken
    /\ tok[i].newRefresh = Undefined
    /\ tok[i].pc # "set"
    /\ tok[i].resp.status \in {0, 400, 401, 500}

(***************************************************************************)
(* C23 UserInfo distinguishes token failure from backend failure: userinfo *)
(* answers invalid_token (401) only when the bearer token does not verify; *)
(* a request whose token verified and whose user lookup raised an error is *)
(* answered server_error (500).                                            *)
(***************************************************************************)
C23_BackendFailureIsServerError ==
  ui.pc = "done"
    => /\ ui.resp.error = "invalid_token" => ui.header.token.kind # "jwt"
       /\ ui.lookupFailed
            => ui.resp.status = 500 /\ ui.resp.error = "server_error"

(***************************************************************************)
(* C24 Authorize identity-lookup failure: a request with valid parameters  *)
(* whose session cookie verified but whose user could not be resolved (no  *)
(* such user any more, or the lookup raised an error) is answered          *)
(* server_error (500), not a redirect, and no code is stored for it.       *)
(***************************************************************************)
C24_LookupFailureIsServerError ==
  (authz.pc = "done" /\ ~NoSession(authz.cookie) /\ authz.lookupFailed)
    => /\ authz.resp.kind = "json"
       /\ authz.resp.status = 500 /\ authz.resp.error = "server_error"
       /\ authz.resp.code = Undefined

\* the values the handlers can draw, and the keys made of them
AllHex == HexValues \cup {RandomHex(n) : n \in 1..MaxIds}
CodeKeys == {CodeKey(h) : h \in AllHex}
RefreshKeys == {RefreshKey(h) : h \in AllHex}

\* the time to live the entries of a key are due
DueTtl(k) == IF k \in CodeKeys THEN CODE_TTL ELSE REFRESH_TTL

NoRepeat(ops) == \A j, k \in DOMAIN ops : ops[j] = ops[k] => j = k

C29_TenantIsolation ==
  [][\A t \in DOMAIN db.tenants :
       db'.tenants[t].licensedModules # db.tenants[t].licensedModules
         => adm.header.token.payload.tenantId = t]_vars

\* the order was paid: a delivery with response_code 0 has confirmed it and
\* its modules are among the tenant's licensedModules
Paid(o) ==
  /\ orders[o].status = "confirmed"
  /\ orders[o].moduleIds \subseteq db.tenants[orders[o].tenantId].licensedModules

(***************************************************************************)
(* C30 Order status is stable after payment: over validly signed webhook   *)
(* deliveries, once a delivery with response_code 0 has confirmed an order *)
(* and added its modules to the tenant's licensedModules, no later         *)
(* delivery sets the status of that order to 'cancelled'; and a repeated   *)
(* successful delivery for it leaves the tenant's licensedModules as they  *)
(* are.                                                                    *)
(***************************************************************************)
C30_OrderStatusStable ==
  [][\A o \in Orders :
       Paid(o) => /\ orders'[o].status # "cancelled"
                  /\ (wh.pc = "updateTenant" /\ wh.order.id = o)
                       => db'.tenants[orders[o].tenantId].licensedModules =
                            db.tenants[orders[o].tenantId].licensedModules]_vars

====
